---- MODULE Spec2Model ----
(***************************************************************************)
(* A model of scopedstats (src/scopedstats.py): the tag normalizer and its *)
(* cache, the two-level defaultdict stores, _StatsCollector, Recorder and  *)
(* its record() context manager, incr and the timer wrapper, run by two    *)
(* logical tasks that each own a value of the _current_collector           *)
(* ContextVar.                                                             *)
(***************************************************************************)
EXTENDS Integers, Sequences, FiniteSets, TLC

VARIABLES
    _tag_cache,          \* module global _tag_cache: frozenset of items -> sorted tuple
    _current_collector,  \* the ContextVar, one value per task (NoCollector = None)
    rdata,               \* Recorder._data, per Recorder
    _has_recorded,       \* Recorder._has_recorded, per Recorder
    cdata,               \* _StatsCollector._data of every collector created so far, per creating task
    frames,              \* per task: the open record() generators and timer wrappers, innermost first
    exc,                 \* per task: an exception is propagating out of the current body
    now,                 \* time.perf_counter()
    scopes,              \* history: per collector, the record() block that created it and its incr calls
    ops,                 \* history: number of calls made and clock advances so far
    mstate               \* per task: position inside a preempted record() exit

vars == <<_tag_cache, _current_collector, rdata, _has_recorded, cdata, frames,
          exc, now, scopes, ops, mstate>>

-----------------------------------------------------------------------------
(* Bounds of the model *)

\* total number of record() entries, incr calls, timer calls and clock advances in a behaviour
MaxOps == 4

(* Inputs *)

Tasks == {"t1", "t2"}
Recorders == {"R1", "R2"}
UserKeys == {"x", "y"}
Amounts == {-1, 1}
DurKey == "total_recording_duration"
\* the one timer-wrapped callable of the model: @timer(tags={"env": "prod"}) def f
TimerQualname == "f"

\* A Tags argument: given = FALSE is None; items is the dict in insertion order.
NoTags == [given |-> FALSE, items |-> <<>>]
Dict(items) == [given |-> TRUE, items |-> items]
TimerTags == Dict(<< <<"env", "prod">> >>)
Prod == Dict(<< <<"env", "prod">> >>)
Dev == Dict(<< <<"env", "dev">> >>)
ProdAz == Dict(<< <<"env", "prod">>, <<"az", "a">> >>)
AzProd == Dict(<< <<"az", "a">>, <<"env", "prod">> >>)
TagArgs == {NoTags, Dict(<<>>), Prod, Dev, ProdAz, AzProd}

\* A reference to a collector: the task that created it and its position among that
\* task's collectors; the ContextVar default (None) refers to nothing.
NoCollector == [task |-> "none", idx |-> 0]

-----------------------------------------------------------------------------
(* Python values *)

\* truthiness of a Tags | None argument: None and {} are falsy
Truthy(tags) == tags.given /\ Len(tags.items) > 0

\* dict.items() as a set
Items(tags) == {tags.items[i] : i \in 1..Len(tags.items)}

\* the order of str on the tag keys in use
TagKeyOrder == <<"az", "env">>
KeyRank(k) == CHOOSE i \in 1..Len(TagKeyOrder) : TagKeyOrder[i] = k

\* sorted(): insertion of one (key, value) pair into a sorted tuple
RECURSIVE InsertSorted(_, _)
InsertSorted(p, s) ==
    IF s = <<>> THEN <<p>>
    ELSE IF KeyRank(p[1]) < KeyRank(Head(s)[1]) THEN <<p>> \o s
    ELSE <<Head(s)>> \o InsertSorted(p, Tail(s))

RECURSIVE Sorted(_)
Sorted(items) ==
    IF items = <<>> THEN <<>> ELSE InsertSorted(Head(items), Sorted(Tail(items)))

\* _normalize_tags with tuple(tags.items()) for tuple(sorted(tags.items()))
NormalizeResultUnsorted(cache, tags) ==
    IF ~Truthy(tags) THEN <<>>
    ELSE IF Items(tags) \in DOMAIN cache THEN cache[Items(tags)]
    ELSE tags.items

\* _normalize_tags: the tuple returned, given the cache
NormalizeResult(cache, tags) ==
    IF ~Truthy(tags) THEN <<>>
    ELSE IF Items(tags) \in DOMAIN cache THEN cache[Items(tags)]
    ELSE Sorted(tags.items)

\* _normalize_tags: the cache after the call
NormalizeCache(cache, tags) ==
    IF ~Truthy(tags) \/ Items(tags) \in DOMAIN cache THEN cache
    ELSE (Items(tags) :> Sorted(tags.items)) @@ cache

\* "() if not tags else _normalize_tags(tags)"
TagsTuple(cache, tags) == IF ~Truthy(tags) THEN <<>> ELSE NormalizeResult(cache, tags)

-----------------------------------------------------------------------------
(* The stores: defaultdict(lambda: defaultdict(lambda: 0)), in insertion   *)
(* order: a sequence of [key, tags], tags a sequence of [sig, val].        *)

EmptyData == <<>>

HasKey(d, k) == \E i \in 1..Len(d) : d[i].key = k
KeyIdx(d, k) == CHOOSE i \in 1..Len(d) : d[i].key = k
HasSig(td, s) == \E j \in 1..Len(td) : td[j].sig = s
SigIdx(td, s) == CHOOSE j \in 1..Len(td) : td[j].sig = s

\* d[key] on the outer defaultdict: a missing key is inserted with an empty inner dict
GetKey(d, k) == IF HasKey(d, k) THEN d ELSE Append(d, [key |-> k, tags |-> <<>>])

\* td[sig] on the inner defaultdict: a missing signature is inserted with 0
GetSig(td, s) == IF HasSig(td, s) THEN td ELSE Append(td, [sig |-> s, val |-> 0])

\* "=" written for "+=": the entry is overwritten
AddEntryOverwrite(d, k, s, amount) ==
    LET d1 == GetKey(d, k)
        i  == KeyIdx(d1, k)
        td == GetSig(d1[i].tags, s)
        j  == SigIdx(td, s)
    IN [d1 EXCEPT ![i].tags = [td EXCEPT ![j].val = amount]]

\* d[key][sig] += amount
AddEntry(d, k, s, amount) ==
    LET d1 == GetKey(d, k)
        i  == KeyIdx(d1, k)
        td == GetSig(d1[i].tags, s)
        j  == SigIdx(td, s)
    IN [d1 EXCEPT ![i].tags = [td EXCEPT ![j].val = @ + amount]]

\* d[key][sig] = value
SetEntry(d, k, s, value) ==
    LET d1 == GetKey(d, k)
        i  == KeyIdx(d1, k)
        td == d1[i].tags
    IN [d1 EXCEPT ![i].tags =
            IF HasSig(td, s) THEN [td EXCEPT ![SigIdx(td, s)].val = value]
            ELSE Append(td, [sig |-> s, val |-> value])]

\* what a store holds at (key, sig), 0 where it holds nothing (a read that inserts nothing)
Val(d, k, s) ==
    IF HasKey(d, k) /\ HasSig(d[KeyIdx(d, k)].tags, s)
    THEN LET td == d[KeyIdx(d, k)].tags IN td[SigIdx(td, s)].val
    ELSE 0

KeysOf(d) == {d[i].key : i \in 1..Len(d)}
SigsOf(d, k) == IF HasKey(d, k)
                THEN LET td == d[KeyIdx(d, k)].tags IN {td[j].sig : j \in 1..Len(td)}
                ELSE {}

-----------------------------------------------------------------------------
(* _StatsCollector.merge_into and Recorder._merge_collector: the same two  *)
(* nested loops over the source in insertion order.                        *)

\* the inner loop with "=" written for "+=": the target's entries are replaced
RECURSIVE MergeTagsOverwrite(_, _, _, _)
MergeTagsOverwrite(dst, k, td, j) ==
    IF j > Len(td) THEN dst
    ELSE MergeTagsOverwrite(SetEntry(dst, k, td[j].sig, td[j].val), k, td, j + 1)

\* inner loop: for tags_tuple, amount in tags_data.items(): target[tags_tuple] += amount
RECURSIVE MergeTags(_, _, _, _)
MergeTags(dst, k, td, j) ==
    IF j > Len(td) THEN dst
    ELSE MergeTags(AddEntry(dst, k, td[j].sig, td[j].val), k, td, j + 1)

\* outer loop: for key, tags_data in source.items(): target_key_data = target[key]; ...
RECURSIVE MergeFrom(_, _, _)
MergeFrom(src, dst, i) ==
    IF i > Len(src) THEN dst
    ELSE MergeFrom(src, MergeTags(GetKey(dst, src[i].key), src[i].key, src[i].tags, 1), i + 1)

\* _StatsCollector.merge_into(self, target): the target's _data afterwards
merge_into(self, target) == MergeFrom(self, target, 1)

\* the Recorder keeping only the last collector: its _data replaced, not merged into
_merge_collector_replace(self, collector) == collector

\* Recorder._merge_collector(self, collector): the Recorder's _data afterwards
_merge_collector(self, collector) == MergeFrom(collector, self, 1)

\* set written as increment: the value is added to what the collector holds
collector_set_additive(self, key, tags, value) ==
    AddEntry(self, key, TagsTuple(_tag_cache, tags), value)

\* _StatsCollector.set(key, tags, value): the collector's _data afterwards
collector_set(self, key, tags, value) == SetEntry(self, key, TagsTuple(_tag_cache, tags), value)

-----------------------------------------------------------------------------
(* _get_filtered_stats *)

SigItems(s) == {s[i] : i \in 1..Len(s)}

\* the filter read as "some pair of the filter appears" instead of "every pair"
MatchesSome(tag_filter, s) == ~Truthy(tag_filter) \/ Items(tag_filter) \cap SigItems(s) # {}

\* filter_items is None or filter_items.issubset(set(tags_tuple))
Matches(tag_filter, s) == ~Truthy(tag_filter) \/ Items(tag_filter) \subseteq SigItems(s)

\* total over the matching signatures of one key
RECURSIVE FilteredTotal(_, _, _)
FilteredTotal(td, tag_filter, j) ==
    IF j > Len(td) THEN 0
    ELSE (IF Matches(tag_filter, td[j].sig) THEN td[j].val ELSE 0)
         + FilteredTotal(td, tag_filter, j + 1)

\* "if total > 0 or filter_items is None"
Included(total, tag_filter) == total > 0 \/ ~Truthy(tag_filter)

_get_filtered_stats(data, tag_filter) ==
    LET shown == {i \in 1..Len(data) :
                     Included(FilteredTotal(data[i].tags, tag_filter, 1), tag_filter)}
    IN [k \in {data[i].key : i \in shown} |->
            FilteredTotal(data[KeyIdx(data, k)].tags, tag_filter, 1)]

NoResult == [k \in {} |-> 0]

\* Recorder.get_result: the error raised ("none" when it returns) and the mapping returned
get_result(r, tag_filter, require_recording) ==
    IF require_recording /\ ~_has_recorded[r]
    THEN [err |-> "ValueError", out |-> NoResult]
    ELSE [err |-> "none", out |-> _get_filtered_stats(rdata[r], tag_filter)]

-----------------------------------------------------------------------------
(* The timer wrapper of f, made at decoration time *)

CountKey == "calls.f.count"
TotalDurKey == "calls.f.total_dur"
\* tags_tuple of the wrapper, normalized once when f is decorated
TimerSig == TagsTuple(<<>>, TimerTags)

-----------------------------------------------------------------------------
(* State *)

Idle == [pc |-> "idle", i |-> 0, j |-> 0, tmp |-> 0]

NoOwn == [k \in UserKeys |-> 0]

\* the signatures the tag sets of the model have
AllSigs == {Sorted(tags.items) : tags \in TagArgs}
NoOwnSig == [p \in UserKeys \X AllSigs |-> 0]

Init ==
    /\ _tag_cache = NormalizeCache(<<>>, TimerTags)
    /\ _current_collector = [t \in Tasks |-> NoCollector]
    /\ rdata = [r \in Recorders |-> EmptyData]
    /\ _has_recorded = [r \in Recorders |-> FALSE]
    /\ cdata = [t \in Tasks |-> <<>>]
    /\ frames = [t \in Tasks |-> <<>>]
    /\ exc = [t \in Tasks |-> FALSE]
    /\ now = 0
    /\ scopes = [t \in Tasks |-> <<>>]
    /\ ops = 0
    /\ mstate = [t \in Tasks |-> Idle]

\* a task can make a call: no exception is unwinding it and it is not inside a preempted exit
CanCall(t) == ~exc[t] /\ mstate[t].pc = "idle" /\ ops < MaxOps

\* the collector of the innermost record() block open in the task's code, by the with-nesting
RecordFrames(t) == SelectSeq(frames[t], LAMBDA f : f.kind = "record")
Innermost(t) == IF RecordFrames(t) = <<>> THEN NoCollector ELSE Head(RecordFrames(t)).collector

\* a plain module global instead of a ContextVar: every task reads the value set last,
\* here that of whichever task has one set
CurrentCollectorShared(t) ==
    IF \A u \in Tasks : _current_collector[u] = NoCollector THEN NoCollector
    ELSE _current_collector[CHOOSE u \in Tasks : _current_collector[u] # NoCollector]

\* _current_collector.get() in task t
CurrentCollector(t) == _current_collector[t]

\* the _data of the collector a reference names
DataOf(c) == cdata[c.task][c.idx]

\* history: the incr calls the enclosing record() block has made so far
IncrsSoFar(t) ==
    IF Innermost(t) = NoCollector THEN 0
    ELSE scopes[Innermost(t).task][Innermost(t).idx].n

\* Recorder.record(), up to the yield
record_enter(t, r) ==
    /\ CanCall(t)
    /\ LET collector == [task |-> t, idx |-> Len(cdata[t]) + 1]
           parent_collector == CurrentCollector(t)
       IN /\ cdata' = [cdata EXCEPT ![t] = Append(@, EmptyData)]
          /\ _current_collector' = [_current_collector EXCEPT ![t] = collector]
          /\ frames' = [frames EXCEPT ![t] =
                 <<[kind |-> "record", rec |-> r, collector |-> collector,
                    parent |-> parent_collector, token |-> parent_collector,
                    start |-> now]>> \o @]
          /\ scopes' = [scopes EXCEPT ![t] =
                 Append(@, [rec |-> r, parent |-> Innermost(t), closed |-> FALSE,
                            n |-> 0, own |-> NoOwn, ownsig |-> NoOwnSig,
                            before |-> IncrsSoFar(t)])]
    /\ ops' = ops + 1
    /\ UNCHANGED <<_tag_cache, rdata, _has_recorded, exc, now, mstate>>

\* the finally block of Recorder.record(), for the frame f of the block being left:
\* collector.set("total_recording_duration", value=recording_duration)
Stamped(f) == collector_set(DataOf(f.collector), DurKey, NoTags, now - f.start)

\* self._merge_collector(collector)
ExitRecorders(f) == [rdata EXCEPT ![f.rec] = _merge_collector(@, Stamped(f))]

\* the flag kept as one class attribute shared by every Recorder
ExitFlagShared(f) == [r \in Recorders |-> TRUE]

\* self._has_recorded = True
ExitFlag(f) == [_has_recorded EXCEPT ![f.rec] = TRUE]

\* _current_collector.reset(context_token), in task t
ExitAmbientCleared(t, f) == [_current_collector EXCEPT ![t] = NoCollector]
ExitAmbientKept(t, f) == _current_collector
ExitAmbient(t, f) == [_current_collector EXCEPT ![t] = f.token]

\* the exit without lines 129-130: the collector is stamped and not merged into the parent
ExitCollectorsNoParent(f) ==
    [cdata EXCEPT ![f.collector.task][f.collector.idx] = Stamped(f)]

\* the collector stamped, and "if parent_collector is not None: collector.merge_into(parent_collector)"
ExitCollectors(f) ==
    LET cdata1 == [cdata EXCEPT ![f.collector.task][f.collector.idx] = Stamped(f)]
    IN IF f.parent # NoCollector
       THEN [cdata1 EXCEPT ![f.parent.task][f.parent.idx] = merge_into(Stamped(f), @)]
       ELSE cdata1

\* record() with the bookkeeping after the yield instead of in a finally block
record_exit_no_finally(t, raised) ==
    /\ mstate[t].pc = "idle"
    /\ frames[t] # <<>>
    /\ Head(frames[t]).kind = "record"
    /\ exc[t] => raised
    /\ LET f == Head(frames[t])
       IN IF raised
          THEN /\ scopes' = [scopes EXCEPT ![f.collector.task][f.collector.idx].closed = TRUE]
               /\ UNCHANGED <<rdata, _has_recorded, _current_collector, cdata>>
          ELSE /\ rdata' = ExitRecorders(f)
               /\ _has_recorded' = ExitFlag(f)
               /\ _current_collector' = ExitAmbient(t, f)
               /\ cdata' = ExitCollectors(f)
               /\ scopes' = [scopes EXCEPT ![f.collector.task][f.collector.idx].closed = TRUE]
    /\ frames' = [frames EXCEPT ![t] = Tail(@)]
    /\ exc' = [exc EXCEPT ![t] = raised]
    /\ UNCHANGED <<_tag_cache, now, ops, mstate>>

\* Recorder.record() from the yield on: the body returned (raised = FALSE) or raised, the
\* finally block runs, and an exception goes on to the code around the with block
record_exit(t, raised) ==
    /\ mstate[t].pc = "idle"
    /\ frames[t] # <<>>
    /\ Head(frames[t]).kind = "record"
    /\ exc[t] => raised
    /\ LET f == Head(frames[t])
       IN /\ rdata' = ExitRecorders(f)
          /\ _has_recorded' = ExitFlag(f)
          /\ _current_collector' = ExitAmbient(t, f)
          /\ cdata' = ExitCollectors(f)
          /\ scopes' = [scopes EXCEPT ![f.collector.task][f.collector.idx].closed = TRUE]
    /\ frames' = [frames EXCEPT ![t] = Tail(@)]
    /\ exc' = [exc EXCEPT ![t] = raised]
    /\ UNCHANGED <<_tag_cache, now, ops, mstate>>

\* history: an incr call made in the body of the innermost open record() block
NoteIncr(t, key, tags, amount) ==
    LET c == Innermost(t)
    IN IF c = NoCollector THEN scopes
       ELSE [scopes EXCEPT ![c.task][c.idx].n = @ + 1,
                           ![c.task][c.idx].own[key] = @ + amount,
                           ![c.task][c.idx].ownsig[<<key, Sorted(tags.items)>>] = @ + amount]

\* incr(key, tags, amount)
incr(t, key, tags, amount) ==
    /\ CanCall(t)
    /\ LET collector == CurrentCollector(t)
       IN IF collector # NoCollector
          THEN /\ _tag_cache' = NormalizeCache(_tag_cache, tags)
               /\ cdata' = [cdata EXCEPT ![collector.task][collector.idx] =
                                AddEntry(@, key, TagsTuple(_tag_cache, tags), amount)]
          ELSE UNCHANGED <<_tag_cache, cdata>>
    /\ scopes' = NoteIncr(t, key, tags, amount)
    /\ ops' = ops + 1
    /\ UNCHANGED <<_current_collector, rdata, _has_recorded, frames, exc, now, mstate>>

\* timer wrapper, up to the call of the wrapped f
timer_call(t) ==
    /\ CanCall(t)
    /\ LET collector == CurrentCollector(t)
       IN frames' = [frames EXCEPT ![t] =
              <<[kind |-> "timer", rec |-> "-", collector |-> collector,
                 parent |-> NoCollector, token |-> NoCollector,
                 start |-> IF collector # NoCollector THEN now ELSE 0]>> \o @]
    /\ ops' = ops + 1
    /\ UNCHANGED <<_tag_cache, _current_collector, rdata, _has_recorded, cdata, exc,
                   now, scopes, mstate>>

\* the wrapper with the two writes after the call instead of in a finally block
timer_return_no_finally(t, raised) ==
    /\ mstate[t].pc = "idle"
    /\ frames[t] # <<>>
    /\ Head(frames[t]).kind = "timer"
    /\ exc[t] => raised
    /\ LET f == Head(frames[t])
           duration_secs == now - f.start
       IN cdata' = IF f.collector # NoCollector /\ ~raised
                   THEN [cdata EXCEPT ![f.collector.task][f.collector.idx] =
                            AddEntry(AddEntry(@, CountKey, TimerSig, 1),
                                     TotalDurKey, TimerSig, duration_secs)]
                   ELSE cdata
    /\ frames' = [frames EXCEPT ![t] = Tail(@)]
    /\ exc' = [exc EXCEPT ![t] = raised]
    /\ UNCHANGED <<_tag_cache, _current_collector, rdata, _has_recorded, now, scopes,
                   ops, mstate>>

\* timer wrapper, after f returned (raised = FALSE) or raised: with no collector at the
\* call nothing is written; otherwise the finally block writes the two keys
timer_return(t, raised) ==
    /\ mstate[t].pc = "idle"
    /\ frames[t] # <<>>
    /\ Head(frames[t]).kind = "timer"
    /\ exc[t] => raised
    /\ LET f == Head(frames[t])
           duration_secs == now - f.start
       IN cdata' = IF f.collector # NoCollector
                   THEN [cdata EXCEPT ![f.collector.task][f.collector.idx] =
                            AddEntry(AddEntry(@, CountKey, TimerSig, 1),
                                     TotalDurKey, TimerSig, duration_secs)]
                   ELSE cdata
    /\ frames' = [frames EXCEPT ![t] = Tail(@)]
    /\ exc' = [exc EXCEPT ![t] = raised]
    /\ UNCHANGED <<_tag_cache, _current_collector, rdata, _has_recorded, now, scopes,
                   ops, mstate>>

\* the code around a with block or a timed call handles the exception
Catch(t) ==
    /\ exc[t]
    /\ exc' = [exc EXCEPT ![t] = FALSE]
    /\ UNCHANGED <<_tag_cache, _current_collector, rdata, _has_recorded, cdata, frames,
                   now, scopes, ops, mstate>>

\* time.perf_counter() advances
Tick ==
    /\ ops < MaxOps
    /\ now' = now + 1
    /\ ops' = ops + 1
    /\ UNCHANGED <<_tag_cache, _current_collector, rdata, _has_recorded, cdata, frames,
                   exc, scopes, mstate>>

\* the read done by indexing: data[key][sig] for the signature of the filter, which
\* inserts the default 0 under every key that has no such entry
DataAfterIndexing(data, tag_filter) ==
    [i \in 1..Len(data) |->
        [data[i] EXCEPT !.tags = GetSig(@, Sorted(tag_filter.items))]]

\* what reading a store leaves in it: _get_filtered_stats walks data.items() and
\* tags_data.items() and indexes nothing, so no default entry is inserted
DataAfterRead(data, tag_filter) == data

\* Recorder.get_result: the Recorders' stores after the call; a call that raises has
\* read nothing
GetResultStores(r, tag_filter, require_recording) ==
    IF get_result(r, tag_filter, require_recording).err = "none"
    THEN [rdata EXCEPT ![r] = DataAfterRead(@, tag_filter)]
    ELSE rdata

\* a call of Recorder.get_result from any task: it returns or raises, and writes nothing
GetResult(r, tag_filter, require_recording) ==
    /\ rdata' = GetResultStores(r, tag_filter, require_recording)
    /\ UNCHANGED <<_tag_cache, _current_collector, _has_recorded, cdata, frames,
                   exc, now, scopes, ops, mstate>>

-----------------------------------------------------------------------------
(* Spec: one task makes every kind of call, on two Recorders *)

MainTasks == {"t1"}
IncrKeys == {"x"}
IncrTags == {NoTags, Prod}
IncrAmounts == {1, -1}
FilterArgs == {NoTags, Prod}

Next ==
    \/ \E t \in MainTasks, r \in Recorders : record_enter(t, r)
    \/ \E t \in MainTasks, raised \in BOOLEAN : record_exit(t, raised)
    \/ \E t \in MainTasks, key \in IncrKeys, tags \in IncrTags, amount \in IncrAmounts :
           incr(t, key, tags, amount)
    \/ \E t \in MainTasks : timer_call(t)
    \/ \E t \in MainTasks, raised \in BOOLEAN : timer_return(t, raised)
    \/ \E t \in MainTasks : Catch(t)
    \/ Tick
    \/ \E r \in Recorders, tag_filter \in FilterArgs, require_recording \in BOOLEAN :
           GetResult(r, tag_filter, require_recording)

Spec == Init /\ [][Next]_vars

-----------------------------------------------------------------------------
(* SpecThreads: two operating-system threads record on one Recorder. The   *)
(* finally block of record() holds no lock, and "final_key_data[tags_tuple]*)
(* += amount" is a read followed by a write, so a thread can be preempted  *)
(* between the steps of Recorder._merge_collector. mstate[t] is the        *)
(* thread's position in the two loops: i, j index the collector's keys and *)
(* signatures, tmp is the value read.                                      *)

\* the finally block up to collector.set(...), then self._merge_collector(collector) starts
exit_begin(t) ==
    /\ mstate[t].pc = "idle"
    /\ ~exc[t]
    /\ frames[t] # <<>>
    /\ Head(frames[t]).kind = "record"
    /\ LET f == Head(frames[t])
       IN cdata' = [cdata EXCEPT ![f.collector.task][f.collector.idx] = Stamped(f)]
    /\ mstate' = [mstate EXCEPT ![t] = [pc |-> "key", i |-> 1, j |-> 0, tmp |-> 0]]
    /\ UNCHANGED <<_tag_cache, _current_collector, rdata, _has_recorded, frames, exc,
                   now, scopes, ops>>

\* "for key, tags_data in collector._data.items(): final_key_data = self._data[key]"
merge_key(t) ==
    /\ mstate[t].pc = "key"
    /\ LET f == Head(frames[t])
           src == DataOf(f.collector)
           i == mstate[t].i
       IN IF i > Len(src)
          THEN /\ mstate' = [mstate EXCEPT ![t].pc = "finish"]
               /\ rdata' = rdata
          ELSE /\ rdata' = [rdata EXCEPT ![f.rec] = GetKey(@, src[i].key)]
               /\ mstate' = [mstate EXCEPT ![t].pc = "load", ![t].j = 1]
    /\ UNCHANGED <<_tag_cache, _current_collector, _has_recorded, cdata, frames, exc,
                   now, scopes, ops>>

\* "for tags_tuple, amount in tags_data.items()" and the read of final_key_data[tags_tuple],
\* which inserts the default 0 when the signature is missing
merge_load(t) ==
    /\ mstate[t].pc = "load"
    /\ LET f == Head(frames[t])
           src == DataOf(f.collector)
           i == mstate[t].i
           j == mstate[t].j
           k == src[i].key
       IN IF j > Len(src[i].tags)
          THEN /\ mstate' = [mstate EXCEPT ![t].pc = "key", ![t].i = i + 1]
               /\ rdata' = rdata
          ELSE /\ rdata' = [rdata EXCEPT ![f.rec] = AddEntry(@, k, src[i].tags[j].sig, 0)]
               /\ mstate' = [mstate EXCEPT ![t].pc = "store",
                                           ![t].tmp = Val(rdata[f.rec], k, src[i].tags[j].sig)]
    /\ UNCHANGED <<_tag_cache, _current_collector, _has_recorded, cdata, frames, exc,
                   now, scopes, ops>>

\* the write of final_key_data[tags_tuple]: the value read plus amount
merge_store(t) ==
    /\ mstate[t].pc = "store"
    /\ LET f == Head(frames[t])
           src == DataOf(f.collector)
           i == mstate[t].i
           j == mstate[t].j
       IN rdata' = [rdata EXCEPT ![f.rec] =
              SetEntry(@, src[i].key, src[i].tags[j].sig, mstate[t].tmp + src[i].tags[j].val)]
    /\ mstate' = [mstate EXCEPT ![t].pc = "load", ![t].j = @ + 1]
    /\ UNCHANGED <<_tag_cache, _current_collector, _has_recorded, cdata, frames, exc,
                   now, scopes, ops>>

\* the rest of the finally block: the flag, the reset, the merge into the parent
exit_finish(t) ==
    /\ mstate[t].pc = "finish"
    /\ LET f == Head(frames[t])
       IN /\ _has_recorded' = ExitFlag(f)
          /\ _current_collector' = ExitAmbient(t, f)
          /\ cdata' = IF f.parent # NoCollector
                      THEN [cdata EXCEPT ![f.parent.task][f.parent.idx] =
                               merge_into(DataOf(f.collector), @)]
                      ELSE cdata
          /\ scopes' = [scopes EXCEPT ![f.collector.task][f.collector.idx].closed = TRUE]
    /\ frames' = [frames EXCEPT ![t] = Tail(@)]
    /\ mstate' = [mstate EXCEPT ![t] = Idle]
    /\ UNCHANGED <<_tag_cache, rdata, exc, now, ops>>

ThreadRecorders == {"R1"}

NextThreads ==
    \/ \E t \in Tasks, r \in ThreadRecorders : record_enter(t, r)
    \/ \E t \in Tasks, tags \in IncrTags : incr(t, "x", tags, 1)
    \/ Tick
    \/ \E t \in Tasks : exit_begin(t)
    \/ \E t \in Tasks : merge_key(t)
    \/ \E t \in Tasks : merge_load(t)
    \/ \E t \in Tasks : merge_store(t)
    \/ \E t \in Tasks : exit_finish(t)

SpecThreads == Init /\ [][NextThreads]_vars

-----------------------------------------------------------------------------
(* SpecTasks: two logical tasks, each with its own value of the ContextVar, *)
(* interleave their record() entries, incr calls, timed calls and exits.    *)
(* A record() exit contains no suspension point, so cooperatively scheduled *)
(* tasks interleave at whole calls.                                         *)

NextTasks ==
    \/ \E t \in Tasks, r \in Recorders : record_enter(t, r)
    \/ \E t \in Tasks : record_exit(t, FALSE)
    \/ \E t \in Tasks, key \in IncrKeys, tags \in IncrTags : incr(t, key, tags, 1)
    \/ \E t \in Tasks : timer_call(t)
    \/ \E t \in Tasks : timer_return(t, FALSE)

SpecTasks == Init /\ [][NextTasks]_vars

-----------------------------------------------------------------------------
(* SpecIncr: one task records on one Recorder with every key, tag set and   *)
(* amount of the model, and reads the result with every filter.             *)

NextIncr ==
    \/ record_enter("t1", "R1")
    \/ record_exit("t1", FALSE)
    \/ \E key \in UserKeys, tags \in TagArgs, amount \in Amounts :
           incr("t1", key, tags, amount)
    \/ \E tag_filter \in {NoTags, Prod, ProdAz}, require_recording \in BOOLEAN :
           GetResult("R1", tag_filter, require_recording)

SpecIncr == Init /\ [][NextIncr]_vars

-----------------------------------------------------------------------------
(* SpecTags: one task increments one key under every tag set of the model,  *)
(* in any order, so that the memoization cache is filled in every order.    *)

NextTags ==
    \/ record_enter("t1", "R1")
    \/ record_exit("t1", FALSE)
    \/ \E tags \in TagArgs : incr("t1", "x", tags, 1)

SpecTags == Init /\ [][NextTags]_vars

-----------------------------------------------------------------------------
(* Vocabulary of the properties *)

Ref(t, i) == [task |-> t, idx |-> i]

\* every collector created so far, and those whose record() block has completed its exit
AllRefs == UNION {{Ref(t, i) : i \in 1..Len(cdata[t])} : t \in Tasks}
ScopeOf(c) == scopes[c.task][c.idx]
ClosedOn(r) == {c \in AllRefs : ScopeOf(c).rec = r /\ ScopeOf(c).closed}

AllKeys == UserKeys \cup {DurKey, CountKey, TotalDurKey}

\* the unfiltered read-out of Recorder r
Result(r) == get_result(r, NoTags, FALSE).out

-----------------------------------------------------------------------------
(* C1 *)

\* task t has run exactly: with r.record(): incr("x"); with r.record(): incr("x")
\* and both blocks have closed; nothing else has recorded
NestedOnSame(t, r) ==
    /\ Len(scopes[t]) = 2
    /\ \A u \in Tasks \ {t} : scopes[u] = <<>>
    /\ scopes[t][1] = [rec |-> r, parent |-> NoCollector, closed |-> TRUE, n |-> 1,
                       own |-> [NoOwn EXCEPT !["x"] = 1],
                       ownsig |-> [NoOwnSig EXCEPT ![<<"x", <<>> >>] = 1], before |-> 0]
    /\ scopes[t][2] = [rec |-> r, parent |-> Ref(t, 1), closed |-> TRUE, n |-> 1,
                       own |-> [NoOwn EXCEPT !["x"] = 1],
                       ownsig |-> [NoOwnSig EXCEPT ![<<"x", <<>> >>] = 1], before |-> 1]

\* C1 (as claimed): nesting propagation on one Recorder: an outer R.record() scope
\* increments "x" once and runs a nested R.record() scope that increments "x" once;
\* after both scopes have closed, R.get_result()["x"] is 2.
C1_NestingPropagation ==
    \A t \in Tasks, r \in Recorders :
        NestedOnSame(t, r) => ("x" \in DOMAIN Result(r) /\ Result(r)["x"] = 2)

-----------------------------------------------------------------------------
(* C2 *)

RECURSIVE SumOver(_, _)
SumOver(f, S) ==
    IF S = {} THEN 0
    ELSE LET c == CHOOSE c \in S : TRUE IN f[c] + SumOver(f, S \ {c})

\* what the record() blocks that have closed on r held at (k, s), added up
ClosedTotal(r, k, s) == SumOver([c \in ClosedOn(r) |-> Val(DataOf(c), k, s)], ClosedOn(r))

\* no task is inside a call
Quiescent == \A t \in Tasks : frames[t] = <<>> /\ mstate[t].pc = "idle"

\* C2 (as claimed): no lost updates: when two tasks each close a record() scope on the
\* same Recorder concurrently, in any interleaving of the steps of the two exit-time
\* merges, the Recorder ends with, for every (key, signature), the values of both
\* scopes' accumulators added to what it held before; no contribution is lost.
C2_NoLostUpdates ==
    Quiescent =>
        \A r \in Recorders, k \in AllKeys, s \in AllSigs :
            Val(rdata[r], k, s) = ClosedTotal(r, k, s)

-----------------------------------------------------------------------------
(* C3 *)

\* everything but the accumulator c is as before the step
OnlyChanges(c) ==
    /\ rdata' = rdata
    /\ _has_recorded' = _has_recorded
    /\ \A u \in Tasks : Len(cdata'[u]) = Len(cdata[u])
    /\ \A d \in AllRefs : d # c => cdata'[d.task][d.idx] = DataOf(d)

\* C3: task isolation of the ambient accumulator: with two tasks running concurrently,
\* each inside its own record() scope, an increment made by task A is added to the
\* accumulator of A's innermost open scope and changes nothing else: not the accumulator
\* of any scope of B, and no Recorder's result, in every interleaving of the two tasks'
\* entries, increments and exits.
C3_TaskIsolation ==
    [][\A t \in Tasks, key \in IncrKeys, tags \in IncrTags :
          (incr(t, key, tags, 1) /\ Innermost(t) # NoCollector) =>
              /\ Innermost(t).task = t
              /\ OnlyChanges(Innermost(t))
              /\ Val(cdata'[t][Innermost(t).idx], key, Sorted(tags.items))
                     = Val(DataOf(Innermost(t)), key, Sorted(tags.items)) + 1]_vars

\* both tasks are inside a record() scope of their own, on different Recorders, and only
\* t1 has incremented: its accumulator holds the increment, t2's holds nothing
C3_Witness ==
    /\ Innermost("t1") = Ref("t1", 1)
    /\ Innermost("t2") = Ref("t2", 1)
    /\ scopes["t1"][1].rec # scopes["t2"][1].rec
    /\ scopes["t1"][1].n = 1
    /\ scopes["t2"][1].n = 0
    /\ Val(DataOf(Ref("t1", 1)), "x", <<>>) = 1
    /\ DataOf(Ref("t2", 1)) = EmptyData

-----------------------------------------------------------------------------
(* C4 *)

\* no Recorder's store, no accumulator and no task's ambient accumulator changes in the step
Untouched ==
    /\ rdata' = rdata
    /\ _has_recorded' = _has_recorded
    /\ cdata' = cdata
    /\ _current_collector' = _current_collector

\* C4: no-op without scope: when the calling task has no record() scope open, a call of
\* incr, and the call and the return of the timer wrapper, raise no error of their own and
\* leave every Recorder's result store, every accumulator and the ambient accumulator
\* unchanged; the wrapped callable is called through and only its own failure propagates.
C4_NoOpWithoutScope ==
    [][\A t \in Tasks :
          RecordFrames(t) = <<>> =>
              /\ \A key \in IncrKeys, tags \in IncrTags, amount \in IncrAmounts :
                     incr(t, key, tags, amount) => (Untouched /\ exc' = exc)
              /\ timer_call(t) => (Untouched /\ exc' = exc)
              /\ \A raised \in BOOLEAN :
                     timer_return(t, raised) => (Untouched /\ exc'[t] = raised)]_vars

\* t1 has closed a record() scope and then, with no scope open, has called incr and is
\* inside a timed call: the closed accumulator and the Recorder hold only the duration
C4_Witness ==
    /\ Len(scopes["t1"]) = 1
    /\ scopes["t1"][1].closed
    /\ ops = 3
    /\ now = 0
    /\ Len(frames["t1"]) = 1
    /\ Head(frames["t1"]).kind = "timer"
    /\ Head(frames["t1"]).collector = NoCollector
    /\ KeysOf(DataOf(Ref("t1", 1))) = {DurKey}
    /\ KeysOf(rdata[scopes["t1"][1].rec]) = {DurKey}

-----------------------------------------------------------------------------
(* C5 *)

\* the target holds, at every (key, signature), what it held before plus what src holds
AddedTo(before, after, src) ==
    \A k \in AllKeys, s \in AllSigs : Val(after, k, s) = Val(before, k, s) + Val(src, k, s)

\* C5: teardown on abnormal exit: when the body of a record() scope on Recorder R exits by
\* raising, the exit still runs in full: total_recording_duration is written into the
\* scope's accumulator, the accumulator is merged into R's result store, R is marked as
\* having recorded, the ambient accumulator is restored to the one of the enclosing scope
\* (none at top level), the accumulator is merged into the parent if there is one, and
\* the failure propagates.
C5_TeardownOnRaise ==
    [][\A t \in Tasks :
          record_exit(t, TRUE) =>
              LET f == Head(frames[t])
                  c == f.collector
                  p == ScopeOf(c).parent
                  after == cdata'[c.task][c.idx]
              IN /\ Val(after, DurKey, <<>>) = now - f.start
                 /\ AddedTo(rdata[ScopeOf(c).rec], rdata'[ScopeOf(c).rec], after)
                 /\ _has_recorded'[ScopeOf(c).rec]
                 /\ _current_collector'[t] = p
                 /\ p # NoCollector => AddedTo(DataOf(p), cdata'[p.task][p.idx], after)
                 /\ frames'[t] = Tail(frames[t])
                 /\ exc'[t]]_vars

\* a nested scope that took one clock step has been left by an exception, which is now
\* propagating in the body of the enclosing scope: the duration is in the Recorder's store
\* and in the parent's accumulator, and the parent is the ambient accumulator again
C5_Witness ==
    /\ exc["t1"]
    /\ Len(scopes["t1"]) = 2
    /\ scopes["t1"][2].closed
    /\ ~scopes["t1"][1].closed
    /\ scopes["t1"][2].parent = Ref("t1", 1)
    /\ _current_collector["t1"] = Ref("t1", 1)
    /\ _has_recorded[scopes["t1"][2].rec]
    /\ Val(DataOf(Ref("t1", 2)), DurKey, <<>>) = 1
    /\ Val(rdata[scopes["t1"][2].rec], DurKey, <<>>) = 1
    /\ Val(DataOf(Ref("t1", 1)), DurKey, <<>>) = 1

-----------------------------------------------------------------------------
(* C6 *)

\* C6: stack discipline of the ambient accumulator: after any sequence of properly nested
\* record() entries and exits in one task, on any mix of Recorders, the task's ambient
\* accumulator is the accumulator of the innermost scope still open, and none when no
\* scope is open; so an increment issued right after an inner scope closes is written to
\* the enclosing scope's accumulator.
C6_StackDiscipline ==
    \A t \in Tasks : _current_collector[t] = Innermost(t)

\* an inner scope on another Recorder has closed, the outer scope is still open, and the
\* outer scope's one incr call came after the inner scope (none before it was opened):
\* the outer accumulator holds it, the closed inner one does not
C6_Witness ==
    /\ Len(scopes["t1"]) = 2
    /\ scopes["t1"][2].closed
    /\ ~scopes["t1"][1].closed
    /\ scopes["t1"][2].rec # scopes["t1"][1].rec
    /\ scopes["t1"][2].before = 0
    /\ scopes["t1"][2].n = 0
    /\ scopes["t1"][1].n = 1
    /\ scopes["t1"][1].own["x"] = 1
    /\ Val(DataOf(Ref("t1", 1)), "x", <<>>) = 1
    /\ Val(DataOf(Ref("t1", 2)), "x", <<>>) = 0
    /\ _current_collector["t1"] = Ref("t1", 1)

-----------------------------------------------------------------------------
(* C7 *)

\* C7: require_recording gate: in every reachable state and for every Recorder R,
\* R.get_result(require_recording=True) fails with the invalid-state error exactly when no
\* record() scope opened on R has completed its exit (a scope still open on R, and scopes
\* completed on other Recorders, do not count); the failing call leaves the stores as they
\* are, and without require_recording the call never fails.
C7_RequireRecordingGate ==
    \A r \in Recorders, tag_filter \in FilterArgs :
        LET err == get_result(r, tag_filter, TRUE).err
        IN  /\ err = "ValueError" <=> ClosedOn(r) = {}
            /\ err \in {"ValueError", "none"}
            /\ err = "ValueError" => GetResultStores(r, tag_filter, TRUE) = rdata
            /\ get_result(r, tag_filter, FALSE).err = "none"

\* a scope has completed on R1, a scope on R2 is still open and none has completed there:
\* the call succeeds on R1 and fails on R2
C7_Witness ==
    /\ ClosedOn("R1") # {}
    /\ ClosedOn("R2") = {}
    /\ \E c \in AllRefs : ScopeOf(c).rec = "R2" /\ ~ScopeOf(c).closed
    /\ get_result("R1", NoTags, TRUE).err = "none"
    /\ get_result("R2", NoTags, TRUE).err = "ValueError"

-----------------------------------------------------------------------------
(* C8 *)

\* the signatures stored under key k that contain every (k, v) pair of the filter
MatchingSigs(data, k, tag_filter) ==
    {s \in SigsOf(data, k) :
        \A n \in 1..Len(tag_filter.items) : \E m \in 1..Len(s) : s[m] = tag_filter.items[n]}

\* the stored values of key k added up over those signatures
MatchingTotal(data, k, tag_filter) ==
    SumOver([s \in MatchingSigs(data, k, tag_filter) |-> Val(data, k, s)],
            MatchingSigs(data, k, tag_filter))

\* C8: filter sum: for every result store and every tag filter F, the value get_result(F)
\* reports for a key is the sum of the stored values over exactly those tag signatures of
\* the key that contain every (k, v) pair of F; an absent or empty filter matches every
\* signature, so the value is the sum over all signatures of the key.
C8_FilterSum ==
    \A r \in Recorders, tag_filter \in TagArgs :
        LET out == get_result(r, tag_filter, FALSE).out
        IN /\ DOMAIN out \subseteq KeysOf(rdata[r])
           /\ \A k \in DOMAIN out : out[k] = MatchingTotal(rdata[r], k, tag_filter)

\* incr("y", {"env": "prod"}) and incr("y", {"env": "dev"}) have been recorded on R1:
\* get_result({"env": "prod"}) is {"y": 1} and get_result()["y"] is 2
C8_Witness ==
    /\ Len(scopes["t1"]) = 1
    /\ scopes["t1"][1].closed
    /\ scopes["t1"][1].n = 2
    /\ SigsOf(rdata["R1"], "y") = {Sorted(Prod.items), Sorted(Dev.items)}
    /\ get_result("R1", Prod, FALSE).out = [k \in {"y"} |-> 1]
    /\ Result("R1")["y"] = 2

-----------------------------------------------------------------------------
(* C9 *)

\* C9 (as claimed): key presence rule of the filtered read-out: get_result leaves a key of
\* the store out of its result exactly when a (non-empty) tag filter was supplied and the
\* key's matching total is 0. With no filter every known key is present, even at total 0;
\* with a filter every key whose matching total is non-zero is present, a negative total
\* produced by negative amounts included.
C9_KeyPresence ==
    \A r \in Recorders, tag_filter \in TagArgs :
        LET out == get_result(r, tag_filter, FALSE).out
        IN \A k \in KeysOf(rdata[r]) :
               k \notin DOMAIN out <=>
                   (Len(tag_filter.items) > 0 /\ MatchingTotal(rdata[r], k, tag_filter) = 0)

-----------------------------------------------------------------------------
(* C10 *)

\* task t has run exactly one record() block, not nested, on r, and it has closed;
\* nothing else has recorded
SingleScope(t, r) ==
    /\ Len(scopes[t]) = 1
    /\ \A u \in Tasks \ {t} : scopes[u] = <<>>
    /\ scopes[t][1].rec = r
    /\ scopes[t][1].closed

\* C10: increment additivity: for every sequence of incr(k, tags_i, amt_i) calls made
\* inside a single non-nested record() scope on a fresh Recorder, with any tag sets and
\* amounts and interleaved with increments of other keys, the unfiltered get_result()[k]
\* after the scope has closed is the sum of the amt_i; a key never incremented has no
\* entry.
C10_IncrementAdditivity ==
    \A t \in Tasks, r \in Recorders :
        SingleScope(t, r) =>
            \A k \in UserKeys :
                IF k \in DOMAIN Result(r)
                THEN Result(r)[k] = scopes[t][1].own[k]
                ELSE scopes[t][1].own[k] = 0 /\ ~HasKey(DataOf(Ref(t, 1)), k)

\* three incr calls in one scope: two on "x" under different tag sets and one on "y" with
\* a negative amount
C10_Witness ==
    /\ SingleScope("t1", "R1")
    /\ scopes["t1"][1].n = 3
    /\ scopes["t1"][1].own = [NoOwn EXCEPT !["x"] = 2, !["y"] = -1]
    /\ Cardinality(SigsOf(rdata["R1"], "x")) = 2
    /\ Result("R1")["x"] = 2
    /\ Result("R1")["y"] = -1

-----------------------------------------------------------------------------
(* C11 *)

\* task t has run exactly: with r1.record(): ...; with r2.record(): ...; ... and both
\* blocks have closed; nothing else has recorded
NestedOnDistinct(t, r1, r2) ==
    /\ r1 # r2
    /\ Len(scopes[t]) = 2
    /\ \A u \in Tasks \ {t} : scopes[u] = <<>>
    /\ scopes[t][1].rec = r1 /\ scopes[t][1].parent = NoCollector /\ scopes[t][1].closed
    /\ scopes[t][2].rec = r2 /\ scopes[t][2].parent = Ref(t, 1) /\ scopes[t][2].closed

\* C11: nesting across distinct Recorders: a record() scope on R2 is nested inside a
\* record() scope on a different Recorder R1; after both have closed, R1 holds at every
\* (key, signature) other than total_recording_duration the increments made in the outer
\* scope plus those made in the inner scope, each counted once, and R2 holds those made
\* in the inner scope only: outer increments, before or after the inner scope, never
\* reach R2.
C11_NestingAcrossRecorders ==
    \A t \in Tasks, r1 \in Recorders, r2 \in Recorders :
        NestedOnDistinct(t, r1, r2) =>
            \A k \in UserKeys, s \in AllSigs :
                /\ Val(rdata[r1], k, s)
                       = scopes[t][1].ownsig[<<k, s>>] + scopes[t][2].ownsig[<<k, s>>]
                /\ Val(rdata[r2], k, s) = scopes[t][2].ownsig[<<k, s>>]

\* the outer scope on R1 incremented "x" under {"env": "prod"} before the inner scope on
\* R2, which incremented "x" untagged: R1 holds both, R2 only the inner one
C11_Witness ==
    /\ NestedOnDistinct("t1", "R1", "R2")
    /\ scopes["t1"][2].before = 1
    /\ scopes["t1"][1].ownsig[<<"x", Sorted(Prod.items)>>] = 1
    /\ scopes["t1"][2].ownsig[<<"x", <<>> >>] = 1
    /\ Val(rdata["R1"], "x", Sorted(Prod.items)) = 1
    /\ Val(rdata["R1"], "x", <<>>) = 1
    /\ Val(rdata["R2"], "x", Sorted(Prod.items)) = 0
    /\ Val(rdata["R2"], "x", <<>>) = 1

-----------------------------------------------------------------------------
(* C12 *)

\* the timed call task t is inside, and the clock reading when it began
TimedCall(t) == Head(frames[t])

\* the accumulator c gains amount at (k, s) in the step
Gains(c, k, s, amount) == Val(cdata'[c.task][c.idx], k, s) = Val(DataOf(c), k, s) + amount

\* C12: timed wrapper failure path: a timer-wrapped callable invoked while a scope is
\* ambient ends, by returning or by raising, with <key>.count increased by exactly 1 and
\* <key>.total_dur increased by the elapsed time, which is not negative, both under the
\* wrapper's fixed tag signature and in the accumulator that was ambient when the call
\* began; nothing else is written, and when the callable raised the failure propagates
\* to the caller after the two writes.
C12_TimerFailurePath ==
    [][\A t \in Tasks, raised \in BOOLEAN :
          (timer_return(t, raised) /\ Innermost(t) # NoCollector) =>
              LET c == Innermost(t)
                  elapsed == now - TimedCall(t).start
              IN /\ elapsed >= 0
                 /\ Gains(c, CountKey, Sorted(TimerTags.items), 1)
                 /\ Gains(c, TotalDurKey, Sorted(TimerTags.items), elapsed)
                 /\ \A k \in AllKeys, s \in AllSigs :
                        (<<k, s>> \notin {<<CountKey, Sorted(TimerTags.items)>>,
                                          <<TotalDurKey, Sorted(TimerTags.items)>>})
                            => Gains(c, k, s, 0)
                 /\ \A d \in AllRefs \ {c} : cdata'[d.task][d.idx] = DataOf(d)
                 /\ rdata' = rdata
                 /\ exc'[t] = raised]_vars

\* a timed call that began inside a scope and took one clock step has raised: the scope's
\* accumulator holds count 1 and total_dur 1, and the failure is propagating in the body
C12_Witness ==
    /\ exc["t1"]
    /\ Len(frames["t1"]) = 1
    /\ Head(frames["t1"]).kind = "record"
    /\ Len(scopes["t1"]) = 1
    /\ Val(DataOf(Ref("t1", 1)), CountKey, Sorted(TimerTags.items)) = 1
    /\ Val(DataOf(Ref("t1", 1)), TotalDurKey, Sorted(TimerTags.items)) = 1

-----------------------------------------------------------------------------
(* C13 *)

\* the step ends the innermost call task t is inside
Leaves(t) == frames[t] # <<>> /\ frames'[t] = Tail(frames[t])

\* C13: scope duration is overwritten, not accumulated: at record() exit, normal or by a
\* failure, the closing scope's accumulator holds under total_recording_duration, with the
\* empty tag signature and no other, exactly the scope's own elapsed time (the clock at
\* exit minus the clock at entry), whatever total_recording_duration the nested scopes
\* merged into this accumulator when they closed.
C13_DurationOverwritten ==
    [][\A t \in Tasks, raised \in BOOLEAN :
          (Leaves(t) /\ record_exit(t, raised)) =>
              LET c == Innermost(t)
                  after == cdata'[c.task][c.idx]
              IN /\ Val(after, DurKey, <<>>) = now - Head(frames[t]).start
                 /\ SigsOf(after, DurKey) = {<<>>}]_vars

\* an outer scope lasted two clock steps and the scope nested in it one: the inner
\* duration 1 was merged into the outer accumulator, which holds 2 after its own exit
C13_Witness ==
    /\ Len(scopes["t1"]) = 2
    /\ scopes["t1"][1].closed /\ scopes["t1"][2].closed
    /\ scopes["t1"][2].parent = Ref("t1", 1)
    /\ now = 2
    /\ Val(DataOf(Ref("t1", 2)), DurKey, <<>>) = 1
    /\ Val(DataOf(Ref("t1", 1)), DurKey, <<>>) = 2

-----------------------------------------------------------------------------
(* C14 *)

\* the store has an entry at (k, s)
HasEntry(d, k, s) == s \in SigsOf(d, k)

\* after is before with src merged into it: at every (key, signature) one of the three
\* stores holds, the value before plus the value of src, 0 standing for no entry, and no
\* entry but those of before and src
MergedInto(before, after, src) ==
    \A k \in KeysOf(before) \cup KeysOf(after) \cup KeysOf(src) :
      \A s \in SigsOf(before, k) \cup SigsOf(after, k) \cup SigsOf(src, k) :
        /\ Val(after, k, s) = Val(before, k, s) + Val(src, k, s)
        /\ HasEntry(after, k, s) <=> (HasEntry(before, k, s) \/ HasEntry(src, k, s))

\* C14: merge is additive and leaves the source unchanged: the merges of a record() exit,
\* of the closing accumulator S into the Recorder's result store and into the parent
\* accumulator when there is one, leave each target with, at every (key, signature), its
\* value before plus S's value (0 where either side has no entry), the value written
\* with set included; entries of the target at pairs absent from S are as before; S is
\* not changed by the merges (of the whole exit only the set of
\* total_recording_duration writes it); no other store is written.
C14_MergeAdditive ==
    [][\A t \in Tasks :
          \* the exit of the innermost scope, the body having returned or raised
          (Leaves(t) /\ record_exit(t, exc'[t])) =>
              LET c == Innermost(t)
                  r == ScopeOf(c).rec
                  p == ScopeOf(c).parent
                  S == cdata'[c.task][c.idx]
              IN /\ \A k \in KeysOf(S) \cup KeysOf(DataOf(c)), s \in AllSigs :
                        <<k, s>> # <<DurKey, <<>> >> =>
                            /\ Val(S, k, s) = Val(DataOf(c), k, s)
                            /\ HasEntry(S, k, s) <=> HasEntry(DataOf(c), k, s)
                 /\ MergedInto(rdata[r], rdata'[r], S)
                 /\ p # NoCollector => MergedInto(DataOf(p), cdata'[p.task][p.idx], S)
                 /\ \A q \in Recorders \ {r} : rdata'[q] = rdata[q]
                 /\ \A d \in AllRefs \ {c, p} : cdata'[d.task][d.idx] = DataOf(d)]_vars

\* two scopes on R1, one after the other, each lasted one clock step: R1 holds
\* total_recording_duration 2, the two values written with set added up, and each
\* accumulator still holds its own 1
C14_Witness ==
    /\ Len(scopes["t1"]) = 2
    /\ scopes["t1"][1].closed /\ scopes["t1"][2].closed
    /\ scopes["t1"][1].rec = "R1" /\ scopes["t1"][2].rec = "R1"
    /\ scopes["t1"][2].parent = NoCollector
    /\ Val(DataOf(Ref("t1", 1)), DurKey, <<>>) = 1
    /\ Val(DataOf(Ref("t1", 2)), DurKey, <<>>) = 1
    /\ Val(rdata["R1"], DurKey, <<>>) = 2

-----------------------------------------------------------------------------
(* C15 *)

\* the pairs of a signature are in the order of their keys, no key twice
SortedByKey(s) == \A i \in 1..Len(s), j \in 1..Len(s) : i < j => KeyRank(s[i][1]) < KeyRank(s[j][1])

\* C15: the tag signature is order-independent and deterministic: in every state of the
\* memoization cache, the signature of a tag set is made of exactly its (key, value)
\* pairs, sorted by key, the same as with an empty cache and the same after any other tag
\* set has been normalized; two tag sets yield the same signature exactly when they have
\* the same content, whatever their insertion order; an absent and an empty tag set both
\* yield the empty signature; so the signatures stored under a key differ in content, and
\* increments with tag sets of the same content accumulate into one entry.
C15_SignatureCanonical ==
    /\ \A a \in TagArgs :
           LET sa == TagsTuple(_tag_cache, a)
           IN /\ sa = NormalizeResult(_tag_cache, a)
              /\ sa = TagsTuple(<<>>, a)
              /\ SigItems(sa) = Items(a)
              /\ SortedByKey(sa)
              /\ ~Truthy(a) => sa = <<>>
    /\ \A a \in TagArgs, b \in TagArgs :
           /\ (Items(a) = Items(b)) <=> (TagsTuple(_tag_cache, a) = TagsTuple(_tag_cache, b))
           /\ TagsTuple(NormalizeCache(_tag_cache, b), a) = TagsTuple(_tag_cache, a)
    /\ \A c \in AllRefs : \A k \in KeysOf(DataOf(c)) :
           \A s1 \in SigsOf(DataOf(c), k), s2 \in SigsOf(DataOf(c), k) :
               SigItems(s1) = SigItems(s2) => s1 = s2

\* incr("x", {"env": "prod", "az": "a"}) and incr("x", {"az": "a", "env": "prod"}) in one
\* scope: the accumulator holds one entry under "x", with value 2
C15_Witness ==
    /\ Len(scopes["t1"]) = 1
    /\ scopes["t1"][1].n = 2
    /\ Items(ProdAz) \in DOMAIN _tag_cache
    /\ \E i \in 1..Len(DataOf(Ref("t1", 1))) :
           /\ DataOf(Ref("t1", 1))[i].key = "x"
           /\ DataOf(Ref("t1", 1))[i].tags = <<[sig |-> << <<"az", "a">>, <<"env", "prod">> >>, val |-> 2]>>

-----------------------------------------------------------------------------
(* C16 *)

-----------------------------------------------------------------------------
(* C17 *)

\* C17: the result store is the sum of the closed scopes: after any sequence of record()
\* entries, increments, timed calls and exits in one task, every Recorder R holds at
\* every (key, signature) the sum, over the scopes opened on R that have completed their
\* exit, of the value the scope's accumulator held at its exit (its own writes and what
\* the scopes nested in it merged into it), and holds an entry only where one of them
\* does; scopes still open contribute nothing yet.
C17_StoreIsSumOfClosed ==
    \A r \in Recorders :
        LET closed == {DataOf(c) : c \in ClosedOn(r)}
        IN /\ KeysOf(rdata[r]) = UNION {KeysOf(d) : d \in closed}
           /\ \A k \in KeysOf(rdata[r]) :
                  /\ SigsOf(rdata[r], k) = UNION {SigsOf(d, k) : d \in closed}
                  /\ \A s \in SigsOf(rdata[r], k) :
                         Val(rdata[r], k, s) = ClosedTotal(r, k, s)

\* a scope on R1 nested in a scope on R1 has closed after one increment of "x"; the outer
\* scope, which incremented "x" before, is still open: R1 holds the inner scope's 1, the
\* open accumulator's 2 is not in it yet
C17_Witness ==
    /\ Len(scopes["t1"]) = 2
    /\ scopes["t1"][1].rec = "R1" /\ scopes["t1"][2].rec = "R1"
    /\ scopes["t1"][2].closed /\ ~scopes["t1"][1].closed
    /\ scopes["t1"][2].before = 1
    /\ Val(DataOf(Ref("t1", 2)), "x", <<>>) = 1
    /\ Val(DataOf(Ref("t1", 1)), "x", <<>>) = 2
    /\ Val(rdata["R1"], "x", <<>>) = 1

-----------------------------------------------------------------------------
(* C18 *)

\* the step leaves everything but the Recorders' stores as it is, as every call of
\* get_result does
OnlyStoresWritten ==
    UNCHANGED <<_tag_cache, _current_collector, _has_recorded, cdata, frames, exc, now,
                scopes, ops, mstate>>

====
